---- MODULE Spec2Model ----
(***************************************************************************)
(* IndexGraphStarter (routing/index_graph_starter.cpp): two fake joints    *)
(* (start, finish) spliced into the edge enumeration of an IndexGraph, and *)
(* the redress of a joint route into a RoadPoint route.                    *)
(*                                                                         *)
(* The IndexGraph, its road index and the edge estimator are collaborators *)
(* of the starter; they are modelled as a small road network: every        *)
(* feature is a polyline of points 0..MaxPointId, a point may belong to a  *)
(* joint, a feature may be one-way and may be a non-road.                  *)
(***************************************************************************)
EXTENDS Integers, Sequences, FiniteSets, TLC

\* ------------------------------------------------------------------ bounds
\* The points of a feature are numbered 0..MaxPointId.
MaxPointId == 2
\* The network holds at most MaxJoints joints (ids 0..GetNumJoints-1).
MaxJoints == 2
\* The longest joint route handed to RedressRoute.
MaxRouteLen == 3

\* The network has two features: enough for two parallel roads between the
\* same joints, and for a route that turns from one road into another.
Features == {0, 1}
PointIds == 0..MaxPointId

\* Joint::kInvalidId (the code's numeric_limits<uint32_t>::max(), here -1).
kInvalidId == -1

VARIABLES
  m_graph,     \* the IndexGraph the starter borrows: jointIds, oneWay, isRoad
  m_start,     \* FakeJoint of the start: m_point, m_fakeId, m_jointId
  m_finish,    \* FakeJoint of the finish
  call,        \* the last call made on the starter, with its arguments
  edges,       \* the caller's vector<JointEdge> after GetEdgesList
  roadPoints,  \* the caller's vector<RoadPoint> after RedressRoute
  result,      \* result0, result1 of FindPointsWithCommonFeature
  thrown       \* the RoutingException the last call raised, or "none"

vars == <<m_graph, m_start, m_finish, call, edges, roadPoints, result, thrown>>

\* ------------------------------------------------------------ small helpers
Abs(x) == IF x < 0 THEN -x ELSE x

RoadPoint(f, p) == [featureId |-> f, pointId |-> p]

JointEdge(t, w) == [target |-> t, weight |-> w]

RECURSIVE Concat(_)
Concat(ss) == IF ss = <<>> THEN <<>> ELSE Head(ss) \o Concat(Tail(ss))

\* All road points of the network, by (featureId, pointId).
AllRoadPoints ==
  Concat([f \in 1..Cardinality(Features) |->
            [p \in 1..(MaxPointId + 1) |-> RoadPoint(f - 1, p - 1)]])

\* ------------------------------------------------- the IndexGraph (network)
\* RoadIndex::GetJointId: the joint a road point belongs to, or kInvalidId.
GetJointId(rp) == m_graph.jointIds[rp.featureId][rp.pointId]

\* IndexGraph::GetNumJoints: joints are numbered 0..GetNumJoints-1.
GetNumJoints ==
  Cardinality({m_graph.jointIds[f][p] : f \in Features, p \in PointIds} \ {kInvalidId})

\* JointIndex::ForEachPoint: the road points of a real joint, in a fixed order.
GraphForEachPoint(jointId) ==
  LET OfJoint(rp) == m_graph.jointIds[rp.featureId][rp.pointId] = jointId
  IN SelectSeq(AllRoadPoints, OfJoint)

\* IndexGraph::JointLiesOnRoad.
JointLiesOnRoad(jointId, featureId) ==
  \E p \in PointIds : m_graph.jointIds[featureId][p] = jointId

\* EdgeEstimator::CalcEdgesWeight: the cost of a feature between two of its
\* points; symmetric, zero between a point and itself; a segment of feature 0
\* costs 2, a segment of any other feature 1.
CalcEdgesWeight(featureId, pointFrom, pointTo) ==
  (IF featureId = 0 THEN 2 ELSE 1) * Abs(pointFrom - pointTo)

\* RoadJointIds::FindNeighbor: the nearest joint after (forward) or before the
\* point on its feature, with its point id; <<kInvalidId, 0>> when there is none.
FindNeighbor(rp, forward) ==
  LET ids == m_graph.jointIds[rp.featureId]
      cand == IF forward
              THEN {i \in PointIds : i > rp.pointId /\ ids[i] # kInvalidId}
              ELSE {i \in PointIds : i < rp.pointId /\ ids[i] # kInvalidId}
  IN IF cand = {} THEN <<kInvalidId, 0>>
     ELSE LET i == IF forward
                   THEN CHOOSE x \in cand : \A y \in cand : x <= y
                   ELSE CHOOSE x \in cand : \A y \in cand : x >= y
          IN <<ids[i], i>>

\* IndexGraph::GetNeighboringEdge: the edge to the neighbour joint, if any.
GetNeighboringEdge(rp, forward) ==
  LET neighbor == FindNeighbor(rp, forward)
  IN IF neighbor[1] # kInvalidId
     THEN <<JointEdge(neighbor[1],
                      CalcEdgesWeight(rp.featureId, rp.pointId, neighbor[2]))>>
     ELSE <<>>

\* IndexGraph::GetNeighboringEdges: the edges the call appends for a road point:
\* backward neighbour first, then forward neighbour; a one-way feature is left
\* forward only and entered backward only; a non-road has no edges.
GetNeighboringEdges(rp, isOutgoing) ==
  IF ~m_graph.isRoad[rp.featureId] THEN <<>>
  ELSE LET bidirectional == ~m_graph.oneWay[rp.featureId]
       IN (IF ~isOutgoing \/ bidirectional
           THEN GetNeighboringEdge(rp, FALSE) ELSE <<>>)
          \o (IF isOutgoing \/ bidirectional
              THEN GetNeighboringEdge(rp, TRUE) ELSE <<>>)

\* IndexGraph::GetEdgesList: the neighbouring edges of every point of the joint.
GraphGetEdgesList(jointId, isOutgoing) ==
  LET pts == GraphForEachPoint(jointId)
  IN Concat([i \in 1..Len(pts) |-> GetNeighboringEdges(pts[i], isOutgoing)])

\* IndexGraph::GetDirectedEdge: the edge between two points of one feature, with
\* the given target; none on a non-road, none against a one-way.
GetDirectedEdge(featureId, pointFrom, pointTo, target, forward) ==
  IF ~m_graph.isRoad[featureId] THEN <<>>
  ELSE IF m_graph.oneWay[featureId] /\ forward # (pointFrom < pointTo) THEN <<>>
  ELSE <<JointEdge(target, CalcEdgesWeight(featureId, pointFrom, pointTo))>>

\* ------------------------------------------------ IndexGraphStarter::FakeJoint
\* FakeJoint::CalcJointId: the suggested (real) joint id, or the fake id when
\* the point is on no joint.
CalcJointId(fakeId, suggestedId) ==
  IF suggestedId = kInvalidId THEN fakeId ELSE suggestedId

\* FakeJoint::FakeJoint.
FakeJoint(point, fakeId, suggestedId) ==
  [m_point |-> point, m_fakeId |-> fakeId,
   m_jointId |-> CalcJointId(fakeId, suggestedId)]

\* FakeJoint::IsFake: the joint kept its own fake id.
IsFake(fakeJoint) == fakeJoint.m_jointId = fakeJoint.m_fakeId

\* The constructor's m_start.
StartJoint(startPoint) ==
  FakeJoint(startPoint, GetNumJoints, GetJointId(startPoint))

\* The constructor's m_finish without the startPoint == finishPoint case.
FinishJointOfItsOwn(startPoint, finishPoint) ==
  FakeJoint(finishPoint, GetNumJoints + 1, GetJointId(finishPoint))

\* The constructor's m_finish: the start's joint id when the two points are equal.
FinishJoint(startPoint, finishPoint) ==
  FakeJoint(finishPoint, GetNumJoints + 1,
            IF startPoint = finishPoint
            THEN StartJoint(startPoint).m_jointId
            ELSE GetJointId(finishPoint))

\* ----------------------------------------------------------- edge enumeration
\* GetFakeEdges without its to.IsFake() test.
GetFakeEdgesToAnyJoint(from, to, isOutgoing) ==
  GetNeighboringEdges(from.m_point, isOutgoing)
  \o (IF from.m_point.featureId = to.m_point.featureId
      THEN GetDirectedEdge(from.m_point.featureId, from.m_point.pointId,
                           to.m_point.pointId, to.m_jointId, isOutgoing)
      ELSE <<>>)

\* IndexGraphStarter::GetFakeEdges: the edges the call appends.
GetFakeEdges(from, to, isOutgoing) ==
  GetNeighboringEdges(from.m_point, isOutgoing)
  \o (IF IsFake(to) /\ from.m_point.featureId = to.m_point.featureId
      THEN GetDirectedEdge(from.m_point.featureId, from.m_point.pointId,
                           to.m_point.pointId, to.m_jointId, isOutgoing)
      ELSE <<>>)

\* GetArrivalFakeEdges asking for the fake joint's edges in the direction
\* of the call, not the opposite one.
GetArrivalFakeEdgesSameDirection(jointId, fakeJoint, isOutgoing) ==
  IF ~IsFake(fakeJoint) THEN <<>>
  ELSE IF ~JointLiesOnRoad(jointId, fakeJoint.m_point.featureId) THEN <<>>
  ELSE LET startEdges == GetNeighboringEdges(fakeJoint.m_point, isOutgoing)
           ToJoint(edge) == edge.target = jointId
           hits == SelectSeq(startEdges, ToJoint)
       IN [i \in 1..Len(hits) |-> JointEdge(fakeJoint.m_jointId, hits[i].weight)]

\* IndexGraphStarter::GetArrivalFakeEdges: the edges the call appends.
GetArrivalFakeEdges(jointId, fakeJoint, isOutgoing) ==
  IF ~IsFake(fakeJoint) THEN <<>>
  ELSE IF ~JointLiesOnRoad(jointId, fakeJoint.m_point.featureId) THEN <<>>
  ELSE LET startEdges == GetNeighboringEdges(fakeJoint.m_point, ~isOutgoing)
           ToJoint(edge) == edge.target = jointId
           hits == SelectSeq(startEdges, ToJoint)
       IN [i \in 1..Len(hits) |-> JointEdge(fakeJoint.m_jointId, hits[i].weight)]

\* GetEdgesList without its edges.clear().
GetEdgesListNoClear(jointId, isOutgoing, buffer) ==
  IF jointId = m_start.m_fakeId
  THEN buffer \o GetFakeEdges(m_start, m_finish, isOutgoing)
  ELSE IF jointId = m_finish.m_fakeId
  THEN buffer \o GetFakeEdges(m_finish, m_start, isOutgoing)
  ELSE buffer \o GraphGetEdgesList(jointId, isOutgoing)
              \o GetArrivalFakeEdges(jointId, m_start, isOutgoing)
              \o GetArrivalFakeEdges(jointId, m_finish, isOutgoing)

\* IndexGraphStarter::GetEdgesList: the caller's buffer after the call, given
\* the buffer before it.
GetEdgesList(jointId, isOutgoing, buffer) ==
  LET cleared == SubSeq(buffer, 1, 0)
  IN IF jointId = m_start.m_fakeId
     THEN cleared \o GetFakeEdges(m_start, m_finish, isOutgoing)
     ELSE IF jointId = m_finish.m_fakeId
     THEN cleared \o GetFakeEdges(m_finish, m_start, isOutgoing)
     ELSE cleared \o GraphGetEdgesList(jointId, isOutgoing)
                  \o GetArrivalFakeEdges(jointId, m_start, isOutgoing)
                  \o GetArrivalFakeEdges(jointId, m_finish, isOutgoing)

\* ------------------------------------------------------------- route redress
\* IndexGraphStarter::ForEachPoint: the point of a fake joint, or the road
\* points of a real joint.
ForEachPoint(jointId) ==
  IF jointId = m_start.m_fakeId THEN <<m_start.m_point>>
  ELSE IF jointId = m_finish.m_fakeId THEN <<m_finish.m_point>>
  ELSE GraphForEachPoint(jointId)

\* The pairs (rp0, rp1) the two nested ForEachPoint loops visit, in order.
PointPairs(jointId0, jointId1) ==
  LET ps0 == ForEachPoint(jointId0)
      ps1 == ForEachPoint(jointId1)
  IN Concat([i \in 1..Len(ps0) |-> [j \in 1..Len(ps1) |-> <<ps0[i], ps1[j]>>]])

\* The early returns of the inner lambda without the one-way test.
QualifiesEitherWay(rp0, rp1) ==
  /\ rp0.featureId = rp1.featureId
  /\ m_graph.isRoad[rp0.featureId]

\* The three early returns of the inner lambda.
Qualifies(rp0, rp1) ==
  /\ rp0.featureId = rp1.featureId
  /\ m_graph.isRoad[rp0.featureId]
  /\ ~(m_graph.oneWay[rp0.featureId] /\ rp0.pointId > rp1.pointId)

\* weight <= minWeight in place of weight < minWeight.
BetterOrEqual(weight, minWeight) == weight <= minWeight

\* Whether a newly found pair of this weight replaces the kept one.
Better(weight, minWeight) == weight < minWeight

\* One run of the inner lambda on (rp0, rp1), st holding found, minWeight,
\* result0 and result1.
FindStep(st, rp0, rp1) ==
  IF ~Qualifies(rp0, rp1) THEN st
  ELSE IF st.found
  THEN LET minWeight == IF st.minWeight < 0
                        THEN CalcEdgesWeight(st.result0.featureId,
                                             st.result0.pointId, st.result1.pointId)
                        ELSE st.minWeight
           weight == CalcEdgesWeight(rp0.featureId, rp0.pointId, rp1.pointId)
       IN IF Better(weight, minWeight)
          THEN [found |-> TRUE, minWeight |-> weight, result0 |-> rp0, result1 |-> rp1]
          ELSE [st EXCEPT !.minWeight = minWeight]
  ELSE [found |-> TRUE, minWeight |-> st.minWeight, result0 |-> rp0, result1 |-> rp1]

RECURSIVE FindLoop(_, _, _)
FindLoop(pairs, k, st) ==
  IF k > Len(pairs) THEN st
  ELSE FindLoop(pairs, k + 1, FindStep(st, pairs[k][1], pairs[k][2]))

\* IndexGraphStarter::FindPointsWithCommonFeature: found, and result0, result1
\* as the loops leave them; the call throws when found is FALSE.
FindPointsWithCommonFeature(jointId0, jointId1, result0, result1) ==
  FindLoop(PointPairs(jointId0, jointId1), 1,
           [found |-> FALSE, minWeight |-> -1, result0 |-> result0, result1 |-> result1])

NoException == [what |-> "none", a |-> 0, b |-> 0]

\* RoutingException "Can't find common feature for joints" jointId0 jointId1.
NoCommonFeature(jointId0, jointId1) ==
  [what |-> "Can't find common feature for joints", a |-> jointId0, b |-> jointId1]

\* RoutingException "Wrong equality pointFrom = pointTo =" pointFrom ", featureId = " featureId.
WrongEquality(pointFrom, featureId) ==
  [what |-> "Wrong equality pointFrom = pointTo", a |-> pointFrom, b |-> featureId]

\* The inner loops without the one for pointFrom > pointTo.
InteriorPointsForwardOnly(featureId, pointFrom, pointTo) ==
  IF pointFrom < pointTo
  THEN [k \in 1..(pointTo - pointFrom - 1) |-> RoadPoint(featureId, pointFrom + k)]
  ELSE <<>>

\* The points strictly between pointFrom and pointTo, in travel order; the
\* else branch (equal offsets) throws.
InteriorPoints(featureId, pointFrom, pointTo) ==
  IF pointFrom < pointTo
  THEN [k \in 1..(pointTo - pointFrom - 1) |-> RoadPoint(featureId, pointFrom + k)]
  ELSE [k \in 1..(pointFrom - pointTo - 1) |-> RoadPoint(featureId, pointFrom - k)]

\* The else branch never taken: equal offsets go the way of pointFrom > pointTo.
NeverWrongEquality(pointFrom, pointTo) == FALSE

\* Whether the segment takes the throwing else branch.
IsWrongEquality(pointFrom, pointTo) == ~(pointFrom < pointTo) /\ ~(pointFrom > pointTo)

\* rp0 emitted in every iteration.
EmitsFirstAlways(i) == TRUE

\* Whether iteration i (0-based) emits rp0.
EmitsFirst(i) == i = 0

\* The for loop of RedressRoute from iteration i (0-based) on: the buffer and
\* the exception it ends with.
RECURSIVE RedressLoop(_, _, _)
RedressLoop(route, i, buffer) ==
  IF ~(i < Len(route) - 1) THEN [roadPoints |-> buffer, thrown |-> NoException]
  ELSE LET prevJoint == route[i + 1]
           nextJoint == route[i + 2]
           r == FindPointsWithCommonFeature(prevJoint, nextJoint,
                                            RoadPoint(0, 0), RoadPoint(0, 0))
       IN IF ~r.found
          THEN [roadPoints |-> buffer, thrown |-> NoCommonFeature(prevJoint, nextJoint)]
          ELSE LET rp0 == r.result0
                   rp1 == r.result1
                   b1 == IF EmitsFirst(i) THEN Append(buffer, rp0) ELSE buffer
               IN IF IsWrongEquality(rp0.pointId, rp1.pointId)
                  THEN [roadPoints |-> b1,
                        thrown |-> WrongEquality(rp0.pointId, rp0.featureId)]
                  ELSE RedressLoop(route, i + 1,
                         Append(b1 \o InteriorPoints(rp0.featureId, rp0.pointId, rp1.pointId),
                                rp1))

\* RedressRoute emitting, for a route of one joint, the point of that joint
\* (its first one) in place of the start's.
RedressRouteOwnPoint(route, buffer) ==
  IF Len(route) < 2
  THEN [roadPoints |-> IF Len(route) = 1
                       THEN buffer \o SubSeq(ForEachPoint(route[1]), 1, 1)
                       ELSE buffer,
        thrown |-> NoException]
  ELSE RedressLoop(route, 0, buffer)

\* IndexGraphStarter::RedressRoute: the caller's buffer after the call and the
\* exception raised, given the buffer before it.
RedressRoute(route, buffer) ==
  IF Len(route) < 2
  THEN [roadPoints |-> IF Len(route) = 1 THEN Append(buffer, m_start.m_point) ELSE buffer,
        thrown |-> NoException]
  ELSE RedressLoop(route, 0, buffer)

\* ------------------------------------------------------------------- states
\* Joint ids are dense, 0..GetNumJoints-1; joints are numbered in the order
\* their first point comes in AllRoadPoints (ids are opaque: any other
\* numbering is a renaming of one of these).
WellNumbered(jointIds) ==
  \A k \in 1..Len(AllRoadPoints) :
    LET id == jointIds[AllRoadPoints[k].featureId][AllRoadPoints[k].pointId]
        before == {jointIds[AllRoadPoints[m].featureId][AllRoadPoints[m].pointId] :
                     m \in 1..(k - 1)}
    IN id # kInvalidId => (id = 0 \/ (id - 1) \in before)

\* The road points that belong to a joint.
JointPoints(jointIds) ==
  {rp \in {RoadPoint(f, p) : f \in Features, p \in PointIds} :
     jointIds[rp.featureId][rp.pointId] # kInvalidId}

\* The networks with at most n road points on joints. Every feature may be
\* one-way; at most one feature, one of nonRoads, is a non-road.
Networks(n, nonRoads) ==
  [jointIds : {ji \in [Features -> [PointIds -> -1..(MaxJoints - 1)]] :
                 WellNumbered(ji) /\ Cardinality(JointPoints(ji)) <= n},
   oneWay : [Features -> BOOLEAN],
   isRoad : {[f \in Features |-> TRUE]} \cup {[f \in Features |-> f # g] : g \in nonRoads}]

NoCall == [op |-> "none"]

\* The state after IndexGraphStarter's constructor on one of the networks, the
\* start on one of the features startOn and the finish on one of finishOn, the
\* callers' buffers empty.
Constructed(networks, startOn, finishOn) ==
  /\ m_graph \in networks
  /\ \E startPoint \in {RoadPoint(f, p) : f \in startOn, p \in PointIds},
        finishPoint \in {RoadPoint(f, p) : f \in finishOn, p \in PointIds} :
       /\ m_start = StartJoint(startPoint)
       /\ m_finish = FinishJoint(startPoint, finishPoint)
  /\ call = NoCall
  /\ edges = <<>>
  /\ roadPoints = <<>>
  /\ result = <<>>
  /\ thrown = NoException

\* The joint ids a caller may pass: the real joints and the two fake ids.
JointIds == 0..(GetNumJoints + 1)

\* The joint routes a caller may pass: any joint ids, the fake ones at the
\* first and the last place only (a route is a path found from the start to
\* the finish).
Routes ==
  LET real == 0..(GetNumJoints - 1)
      ends == {GetNumJoints, GetNumJoints + 1}
      Place(n, i) == IF i = 1 \/ i = n THEN real \cup ends ELSE real
  IN UNION {{route \in [1..n -> real \cup ends] :
               \A i \in 1..n : route[i] \in Place(n, i)} : n \in 0..MaxRouteLen}

\* What the caller's vector<JointEdge> may hold before a call: nothing, or an
\* edge left by earlier use (of a weight no edge of the network has).
EdgeBuffers == {<<>>, <<JointEdge(0, 99)>>}

\* What the caller's vector<RoadPoint> may hold before a call: nothing, or a
\* road point left by earlier use.
RoadPointBuffers == {<<>>, <<RoadPoint(1, MaxPointId)>>}

\* A call of GetEdgesList(jointId, isOutgoing, edges).
GetEdgesListCall ==
  /\ call = NoCall
  /\ \E jointId \in JointIds, isOutgoing \in BOOLEAN, buffer \in EdgeBuffers :
       /\ edges' = GetEdgesList(jointId, isOutgoing, buffer)
       /\ call' = [op |-> "GetEdgesList", jointId |-> jointId,
                   isOutgoing |-> isOutgoing]
       /\ UNCHANGED <<m_graph, m_start, m_finish, roadPoints, result, thrown>>

\* A call of RedressRoute(route, roadPoints).
RedressRouteCall ==
  /\ call = NoCall
  /\ \E route \in Routes, buffer \in RoadPointBuffers :
       /\ LET r == RedressRoute(route, buffer)
          IN /\ roadPoints' = r.roadPoints
             /\ thrown' = r.thrown
       /\ call' = [op |-> "RedressRoute", route |-> route, before |-> buffer]
       /\ UNCHANGED <<m_graph, m_start, m_finish, edges, result>>

\* A call of FindPointsWithCommonFeature on two default-constructed RoadPoints
\* (as RedressRoute makes it).
FindPointsCall ==
  /\ call = NoCall
  /\ \E jointId0 \in JointIds, jointId1 \in JointIds :
       /\ LET r == FindPointsWithCommonFeature(jointId0, jointId1,
                                               RoadPoint(0, 0), RoadPoint(0, 0))
          IN /\ result' = <<r.result0, r.result1>>
             /\ thrown' = IF r.found THEN NoException
                          ELSE NoCommonFeature(jointId0, jointId1)
       /\ call' = [op |-> "FindPointsWithCommonFeature",
                   jointId0 |-> jointId0, jointId1 |-> jointId1]
       /\ UNCHANGED <<m_graph, m_start, m_finish, edges, roadPoints>>

\* The search asking for edges: any start and finish, three joint points.
InitEdges == Constructed(Networks(3, {1}), Features, Features)

SpecEdges == InitEdges /\ [][GetEdgesListCall]_vars

\* Common-segment resolution on its own: four joint points, so that two real
\* joints can share both features; start and finish on feature 0.
InitFind == Constructed(Networks(4, {1}), {0}, {0})

SpecFind == InitFind /\ [][FindPointsCall]_vars

\* The caller redressing routes: two joint points, every feature a road, the
\* start on feature 0.
InitRedress == Constructed(Networks(2, {}), {0}, Features)

SpecRedress == InitRedress /\ [][RedressRouteCall]_vars

\* ===================================================================== claims
\* The last call was GetEdgesList on a real joint.
RealJointCall == call.op = "GetEdgesList" /\ call.jointId < GetNumJoints

\* The edges of the buffer after the first n.
After(buffer, n) == SubSeq(buffer, n + 1, Len(buffer))

\* How many edges of the buffer have the target.
CountTarget(buffer, target) ==
  Cardinality({i \in 1..Len(buffer) : buffer[i].target = target})

\* The buffer begins with the network's own edge list of the joint called.
KeepsNetworkList ==
  LET net == GraphGetEdgesList(call.jointId, call.isOutgoing)
  IN Len(edges) >= Len(net) /\ SubSeq(edges, 1, Len(net)) = net

\* C1 as stated: for a real joint j and a direction d, GetEdgesList(j, d) leaves
\* the network's edge list of (j, d), complete and unchanged, followed by at most
\* two more edges, whatever the buffer held before.
C1_AtMostTwoAdded ==
  RealJointCall =>
    /\ KeepsNetworkList
    /\ Len(edges) - Len(GraphGetEdgesList(call.jointId, call.isOutgoing)) <= 2

\* C1 amended: for a real joint j and a direction d, GetEdgesList(j, d) leaves
\* the network's edge list of (j, d), complete and unchanged, followed by the
\* arrival edges of the two fake joints: at most two for each (their targets the
\* fake joint's id), so at most four, whatever the buffer held before.
C1_NetworkListPlusArrivals ==
  RealJointCall =>
    LET net == GraphGetEdgesList(call.jointId, call.isOutgoing)
        added == After(edges, Len(net))
    IN /\ KeepsNetworkList
       /\ Len(added) <= 4
       /\ \A i \in 1..Len(added) :
            added[i].target \in {GetNumJoints, GetNumJoints + 1}
       /\ CountTarget(added, GetNumJoints) <= 2
       /\ CountTarget(added, GetNumJoints + 1) <= 2

\* C1 witness: a real joint with a non-empty network list that got three
\* arrival edges (it is both neighbours of one fake joint, and a neighbour of
\* the other).
C1_Witness ==
  /\ RealJointCall
  /\ GraphGetEdgesList(call.jointId, call.isOutgoing) # <<>>
  /\ Len(edges) = Len(GraphGetEdgesList(call.jointId, call.isOutgoing)) + 3

\* The last call was GetEdgesList on the fake id of the joint.
FakeJointCall(fakeJoint) ==
  call.op = "GetEdgesList" /\ call.jointId = fakeJoint.m_fakeId

\* What C2 says GetEdgesList leaves for the fake id of `from`, `to` being the
\* other fake joint: the neighbouring edges of from's point, then at most one
\* more edge, which is the network's directed edge between the two points with
\* to's joint id for target, and is there only when to is fake (kept its own
\* id) and lies on from's feature.
OnlyNeighboursAndDirect(from, to) ==
  LET neighbours == GetNeighboringEdges(from.m_point, call.isOutgoing)
      added == After(edges, Len(neighbours))
      direct == GetDirectedEdge(from.m_point.featureId, from.m_point.pointId,
                                to.m_point.pointId, to.m_jointId, call.isOutgoing)
  IN /\ Len(edges) >= Len(neighbours)
     /\ SubSeq(edges, 1, Len(neighbours)) = neighbours
     /\ Len(added) <= 1
     /\ added # <<>> =>
          /\ to.m_jointId = to.m_fakeId
          /\ to.m_point.featureId = from.m_point.featureId
          /\ added = direct
          /\ added[1].target = to.m_jointId
     /\ \A i \in 1..Len(edges) :
          \/ edges[i].target = to.m_jointId
          \/ \E k \in 1..Len(neighbours) : neighbours[k].target = edges[i].target

\* C2: GetEdgesList on the start's fake id leaves exactly the neighbouring
\* edges of the start's point plus at most one direct edge to the finish's joint
\* id, present only when the finish is fake, lies on the start's feature and the
\* network has the directed edge between the two points; no edge to any other
\* real joint. The same for the finish's fake id, the roles swapped.
C2_FakeJointEdges ==
  /\ FakeJointCall(m_start) => OnlyNeighboursAndDirect(m_start, m_finish)
  /\ FakeJointCall(m_finish) => OnlyNeighboursAndDirect(m_finish, m_start)

\* C2 witness: the start's fake id got a neighbouring edge and the direct edge
\* to the fake finish.
C2_Witness ==
  /\ FakeJointCall(m_start)
  /\ call.isOutgoing
  /\ GetNeighboringEdges(m_start.m_point, TRUE) # <<>>
  /\ Len(edges) = Len(GetNeighboringEdges(m_start.m_point, TRUE)) + 1
  /\ edges[Len(edges)].target = m_finish.m_fakeId

\* C3: when the start's point is the finish's point, both fake joints have the
\* same joint id, the real joint at the point or else the start's fake id, and
\* GetEdgesList on that id, in either direction, leaves no edge of weight 0
\* back to that id.
C3_SamePointSameId ==
  m_start.m_point = m_finish.m_point =>
    /\ m_finish.m_jointId = m_start.m_jointId
    /\ m_start.m_jointId =
         (IF m_graph.jointIds[m_start.m_point.featureId][m_start.m_point.pointId]
               # kInvalidId
          THEN m_graph.jointIds[m_start.m_point.featureId][m_start.m_point.pointId]
          ELSE GetNumJoints)
    /\ (call.op = "GetEdgesList" /\ call.jointId = m_start.m_jointId) =>
         \A i \in 1..Len(edges) :
           ~(edges[i].target = m_start.m_jointId /\ edges[i].weight = 0)

\* C3 witness: start and finish on the same point, off every joint, on a
\* two-way road, and the edges of their common id enumerated, some found.
C3_Witness ==
  /\ m_start.m_point = m_finish.m_point
  /\ m_start.m_jointId = GetNumJoints
  /\ m_graph.isRoad[m_start.m_point.featureId]
  /\ ~m_graph.oneWay[m_start.m_point.featureId]
  /\ call.op = "GetEdgesList"
  /\ call.jointId = m_start.m_jointId
  /\ edges # <<>>

\* The arrival edges C9 describes for a fake joint at a real joint j in
\* direction d: one edge (the fake joint's id, w) for each edge (j, w) among
\* the neighbouring edges of the fake joint's point in direction ~d; none when
\* the fake joint took a real joint's id.
Mirrored(fakeJoint, jointId, isOutgoing) ==
  IF fakeJoint.m_jointId # fakeJoint.m_fakeId THEN <<>>
  ELSE LET own == GetNeighboringEdges(fakeJoint.m_point, ~isOutgoing)
           ToJoint(edge) == edge.target = jointId
           hits == SelectSeq(own, ToJoint)
       IN [i \in 1..Len(hits) |->
             [target |-> fakeJoint.m_jointId, weight |-> hits[i].weight]]

\* An edge of the buffer has the target and the weight.
HasEdge(buffer, target, weight) ==
  \E i \in 1..Len(buffer) : buffer[i].target = target /\ buffer[i].weight = weight

\* C9: what GetEdgesList(j, d) appends to the network's list of a real joint j
\* is, for the start and then the finish, the mirror image of the fake joint's
\* own neighbouring edges to j in direction ~d (nothing when the fake joint
\* took a real joint's id, nothing when j is not on its feature: then no
\* neighbouring edge targets j). So for incoming edges of j: the fake joint e
\* has a neighbouring outgoing edge to j of weight w iff the list of j has an
\* edge of weight w with target e.
C9_ArrivalMirrors ==
  RealJointCall =>
    LET net == GraphGetEdgesList(call.jointId, call.isOutgoing)
    IN /\ After(edges, Len(net)) =
            Mirrored(m_start, call.jointId, call.isOutgoing)
            \o Mirrored(m_finish, call.jointId, call.isOutgoing)
       /\ \A fakeJoint \in {m_start, m_finish} :
            \/ JointLiesOnRoad(call.jointId, fakeJoint.m_point.featureId)
            \/ Mirrored(fakeJoint, call.jointId, call.isOutgoing) = <<>>
       /\ ~call.isOutgoing =>
            \A fakeJoint \in {m_start, m_finish} :
              fakeJoint.m_jointId = fakeJoint.m_fakeId =>
                \A w \in 0..(2 * MaxPointId) :
                  HasEdge(GetEdgesList(fakeJoint.m_fakeId, TRUE, <<>>),
                          call.jointId, w)
                  <=> HasEdge(edges, fakeJoint.m_jointId, w)

\* C9 witness: incoming edges of a real joint on a one-way road, with an
\* arrival edge from the fake start.
C9_Witness ==
  /\ RealJointCall
  /\ ~call.isOutgoing
  /\ m_graph.oneWay[m_start.m_point.featureId]
  /\ m_start.m_jointId = m_start.m_fakeId
  /\ \E i \in 1..Len(edges) : edges[i].target = m_start.m_fakeId

\* The last call was FindPointsWithCommonFeature.
FindCall == call.op = "FindPointsWithCommonFeature"

\* A pair of positions qualifies, in the words of C6: both on the same road,
\* the road routable and, if it is one-way, the first offset <= the second.
PairQualifies(pair) ==
  /\ pair[1].featureId = pair[2].featureId
  /\ m_graph.isRoad[pair[1].featureId]
  /\ m_graph.oneWay[pair[1].featureId] => pair[1].pointId <= pair[2].pointId

\* The places, in iteration order, of the qualifying pairs of two joints.
QualifyingPlacesOf(jointId0, jointId1) ==
  LET pairs == PointPairs(jointId0, jointId1)
  IN {k \in 1..Len(pairs) : PairQualifies(pairs[k])}

\* Those of the last call.
QualifyingPlaces == QualifyingPlacesOf(call.jointId0, call.jointId1)

\* C6: FindPointsWithCommonFeature(joint0, joint1) throws "Can't find common
\* feature for joints" (joint0, joint1) exactly when no pair of positions, one
\* of joint0 and one of joint1, qualifies; when it returns, the pair it returns
\* qualifies, so a one-way road is never taken backward.
C6_ThrowsIffNoneQualifies ==
  FindCall =>
    /\ thrown = NoCommonFeature(call.jointId0, call.jointId1)
         <=> QualifyingPlaces = {}
    /\ thrown = NoException <=> QualifyingPlaces # {}
    /\ QualifyingPlaces # {} => PairQualifies(result)

\* C6 witness: two real joints whose only common road is one-way and leads from
\* the second to the first; the call threw.
C6_Witness ==
  /\ FindCall
  /\ call.jointId0 < GetNumJoints
  /\ call.jointId1 < GetNumJoints
  /\ thrown = NoCommonFeature(call.jointId0, call.jointId1)
  /\ LET pairs == PointPairs(call.jointId0, call.jointId1)
     IN /\ \E k \in 1..Len(pairs) :
             /\ pairs[k][1].featureId = pairs[k][2].featureId
             /\ m_graph.isRoad[pairs[k][1].featureId]
             /\ m_graph.oneWay[pairs[k][1].featureId]
             /\ pairs[k][1].pointId > pairs[k][2].pointId
        /\ \A k \in 1..Len(pairs) :
             pairs[k][1].featureId = pairs[k][2].featureId =>
               m_graph.oneWay[pairs[k][1].featureId]

\* The estimator's weight of a pair of positions on one road.
PairWeight(pair) ==
  CalcEdgesWeight(pair[1].featureId, pair[1].pointId, pair[2].pointId)

\* C7: when two or more pairs qualify, the pair returned has the least weight
\* of all qualifying pairs and, among those of the least weight, is the first
\* in iteration order (joint0's positions outer, joint1's inner). The result is
\* a function of the inputs, so a repeated call returns the same pair.
C7_FirstOfLeastWeight ==
  (FindCall /\ Cardinality(QualifyingPlaces) >= 2) =>
    LET pairs == PointPairs(call.jointId0, call.jointId1)
        least == {k \in QualifyingPlaces :
                    \A m \in QualifyingPlaces : PairWeight(pairs[k]) <= PairWeight(pairs[m])}
        first == CHOOSE k \in least : \A m \in least : k <= m
    IN /\ thrown = NoException
       /\ result = pairs[first]

\* C7 witness: two real joints joined by both features, two pairs qualify; the
\* pair returned is not the first that qualifies but the later, cheaper one.
C7_Witness ==
  /\ FindCall
  /\ call.jointId0 < GetNumJoints
  /\ call.jointId1 < GetNumJoints
  /\ Cardinality(QualifyingPlaces) >= 2
  /\ LET pairs == PointPairs(call.jointId0, call.jointId1)
         first == CHOOSE k \in QualifyingPlaces : \A m \in QualifyingPlaces : k <= m
     IN /\ result # pairs[first]
        /\ PairWeight(result) < PairWeight(pairs[first])
        /\ pairs[first][1].featureId # result[1].featureId

\* The last call was RedressRoute.
RedressCall == call.op = "RedressRoute"

\* What the call added to the caller's roadPoints.
Emitted == SubSeq(roadPoints, Len(call.before) + 1, Len(roadPoints))

\* The call left what roadPoints held before it in place.
KeepsBefore ==
  /\ Len(roadPoints) >= Len(call.before)
  /\ SubSeq(roadPoints, 1, Len(call.before)) = call.before

\* C4: RedressRoute on a route of length 0 adds no point, and on a route of
\* length 1 adds exactly one, the start's point, whatever the joint id in the
\* route is; neither throws. On an empty roadPoints the output is the empty
\* sequence, resp. the start's point alone.
C4_ShortRoutes ==
  (RedressCall /\ Len(call.route) < 2) =>
    /\ thrown = NoException
    /\ KeepsBefore
    /\ Emitted = (IF Len(call.route) = 1 THEN <<m_start.m_point>> ELSE <<>>)
    /\ call.before = <<>> =>
         roadPoints = (IF Len(call.route) = 1 THEN <<m_start.m_point>> ELSE <<>>)

\* C4 witness: a route of the finish's fake id alone, the finish elsewhere than
\* the start, was redressed into an empty roadPoints.
C4_Witness ==
  /\ RedressCall
  /\ call.route = <<m_finish.m_fakeId>>
  /\ m_finish.m_point # m_start.m_point
  /\ call.before = <<>>
  /\ roadPoints = <<m_start.m_point>>

\* The points of a feature from offset a to offset b, both included, one step
\* at a time.
FromTo(featureId, a, b) ==
  [k \in 1..(Abs(a - b) + 1) |->
     [featureId |-> featureId,
      pointId |-> IF a < b THEN a + (k - 1) ELSE a - (k - 1)]]

\* C5: RedressRoute on a route of two joints with exactly one qualifying pair
\* of positions, at offsets a # b of a road, adds exactly the positions of that
\* road at offsets a, a+-1, ..., b: |a - b| + 1 of them, increasing when a < b
\* and decreasing when a > b (b = 0 included), each once, none skipped. On an
\* empty roadPoints that is the output.
C5_TwoJointRoute ==
  (RedressCall /\ Len(call.route) = 2) =>
    LET pairs == PointPairs(call.route[1], call.route[2])
        places == QualifyingPlacesOf(call.route[1], call.route[2])
    IN \A k \in places :
         (places = {k} /\ pairs[k][1].pointId # pairs[k][2].pointId) =>
           LET expected == FromTo(pairs[k][1].featureId,
                                  pairs[k][1].pointId, pairs[k][2].pointId)
           IN /\ thrown = NoException
              /\ KeepsBefore
              /\ Emitted = expected
              /\ Len(Emitted) = Abs(pairs[k][1].pointId - pairs[k][2].pointId) + 1
              /\ call.before = <<>> => roadPoints = expected

\* C5 witness: two real joints on one road, the first at an offset >= 2 and the
\* second at offset 0; the points in between were emitted, downwards.
C5_Witness ==
  /\ RedressCall
  /\ Len(call.route) = 2
  /\ call.route[1] < GetNumJoints
  /\ call.route[2] < GetNumJoints
  /\ call.before = <<>>
  /\ thrown = NoException
  /\ Len(roadPoints) >= 3
  /\ roadPoints[1].pointId >= 2
  /\ roadPoints[Len(roadPoints)].pointId = 0
  /\ Cardinality(QualifyingPlacesOf(call.route[1], call.route[2])) = 1

\* The connecting segment RedressRoute resolves for the i-th pair of the route.
Segment(i) ==
  FindPointsWithCommonFeature(call.route[i], call.route[i + 1],
                              RoadPoint(0, 0), RoadPoint(0, 0))

\* The segment was found and its two offsets differ.
GoodSegment(i) ==
  /\ Segment(i).found
  /\ Segment(i).result0.pointId # Segment(i).result1.pointId

\* C8: in RedressRoute on a route of two joints or more, when the segment
\* resolved for a pair has the same offset for its two points (the pairs before
\* it resolved to good segments, so the pair is reached), the call throws
\* "Wrong equality pointFrom = pointTo" with that offset and the road's feature
\* id, and does not return normally.
C8_EqualOffsetsThrow ==
  (RedressCall /\ Len(call.route) >= 2) =>
    \A i \in 1..(Len(call.route) - 1) :
      ( /\ \A m \in 1..(i - 1) : GoodSegment(m)
        /\ Segment(i).found
        /\ Segment(i).result0.pointId = Segment(i).result1.pointId ) =>
        /\ thrown # NoException
        /\ thrown.what = "Wrong equality pointFrom = pointTo"
        /\ thrown.a = Segment(i).result0.pointId
        /\ thrown.b = Segment(i).result0.featureId

\* C8 witness: a route of three joints whose first pair resolved to a good
\* segment and whose second pair resolved to equal offsets; the call threw.
C8_Witness ==
  /\ RedressCall
  /\ Len(call.route) = 3
  /\ GoodSegment(1)
  /\ Segment(2).found
  /\ Segment(2).result0.pointId = Segment(2).result1.pointId
  /\ thrown.what = "Wrong equality pointFrom = pointTo"

\* Two adjacent points: on the same road, their offsets differing by 1.
Adjacent(rp, rq) ==
  rp.featureId = rq.featureId /\ Abs(rp.pointId - rq.pointId) = 1

\* RedressRoute returned normally from a route of three joints or more.
LongRouteRedressed ==
  RedressCall /\ Len(call.route) >= 3 /\ thrown = NoException

\* C10 as stated, for a route from the fake start to the fake finish redressed
\* into an empty roadPoints: for every pair after the first, its first resolved
\* point is the last resolved point of the pair before it, and every two
\* consecutive points of the output are adjacent.
C10_SamePointAndAdjacent ==
  ( /\ LongRouteRedressed
    /\ call.before = <<>>
    /\ call.route[1] = m_start.m_fakeId
    /\ call.route[Len(call.route)] = m_finish.m_fakeId ) =>
    /\ \A i \in 2..(Len(call.route) - 1) :
         Segment(i).result0 = Segment(i - 1).result1
    /\ \A k \in 1..(Len(roadPoints) - 1) : Adjacent(roadPoints[k], roadPoints[k + 1])

\* The road point is one of the joint's.
PointOfJoint(rp, jointId) ==
  \E k \in 1..Len(ForEachPoint(jointId)) : ForEachPoint(jointId)[k] = rp

\* C10 amended: for every pair after the first, its first resolved point and
\* the last resolved point of the pair before it are both points of the joint
\* the two pairs share (not always the same point: the route may enter the
\* joint on one road and leave it on another); of the points the call adds,
\* every two consecutive ones are adjacent, or the first of the two is that
\* last resolved point of a pair and the second is adjacent to the first
\* resolved point, another point of the same joint, of the next pair.
C10_SameJointAndAdjacent ==
  LongRouteRedressed =>
    /\ KeepsBefore
    /\ \A i \in 2..(Len(call.route) - 1) :
         /\ PointOfJoint(Segment(i).result0, call.route[i])
         /\ PointOfJoint(Segment(i - 1).result1, call.route[i])
    /\ \A k \in 1..(Len(Emitted) - 1) :
         \/ Adjacent(Emitted[k], Emitted[k + 1])
         \/ \E i \in 2..(Len(call.route) - 1) :
              /\ Emitted[k] = Segment(i - 1).result1
              /\ Segment(i).result0 # Segment(i - 1).result1
              /\ Adjacent(Segment(i).result0, Emitted[k + 1])

\* C10 witness: a route from the fake start over a real joint to the fake
\* finish that enters the joint on one feature and leaves it on the other.
C10_Witness ==
  /\ LongRouteRedressed
  /\ call.before = <<>>
  /\ call.route[1] = m_start.m_fakeId
  /\ call.route[2] < GetNumJoints
  /\ call.route[3] = m_finish.m_fakeId
  /\ Segment(1).result1.featureId # Segment(2).result0.featureId

====
